---- MODULE Spec2Model ----
(***************************************************************************)
(* Model of examples/gallery/demos/matplotlib/route_chord.ipynb: the       *)
(* notebook loads the airline route tables, counts the routes between      *)
(* airports, keeps the 20 busiest source airports and renders the chord    *)
(* diagram of the routes between them.                                     *)
(*                                                                         *)
(* Tables are modelled as pandas treats them here: `routes` is a bag of    *)
(* rows (row order only matters to the tie order of sort_values, which is  *)
(* left open), a grouped result has one row per key.  Every field of a     *)
(* row is present (no missing values), as in the sample data.              *)
(***************************************************************************)
EXTENDS Bags, FiniteSets, Integers, Sequences, TLC

VARIABLES sampledata, pc, bound, routes, airports, route_counts, nodes, chord,
          busiest, busiest_airports, rendered

vars == <<sampledata, pc, bound, routes, airports, route_counts, nodes, chord,
          busiest, busiest_airports, rendered>>

----------------------------------------------------------------------------
(* Bounds of the input tables *)

\* airports 1..NumFree are the sources of the freely chosen route rows
NumFree == 2
\* number of freely chosen route rows
MaxRows == 2

\* iloc[-20:] : the number of airports kept
TopN == 20

\* values of the Stops column
StopsValues == {0, 1}

FreeIDs == 1..NumFree

\* the destinations of the freely chosen route rows
DestinationIDs == 1..(NumFree + 1)

\* A block of k further source airports NumFree+1 .. NumFree+k; airport f
\* has f - NumFree routes, all to airport f - 1, so that the table can hold
\* more than TopN sources with different route counts.
BlockSizes == {0, TopN}

BlockIDs(k) == (NumFree + 1)..(NumFree + k)

AirportIDs == FreeIDs \cup BlockIDs(TopN)

Row(s, d, st) == [SourceID |-> s, DestinationID |-> d, Stops |-> st]

FreeRows ==
    {Row(s, d, st) : s \in FreeIDs, d \in DestinationIDs, st \in StopsValues}

BlockRows(k) == {Row(f, f - 1, 0) : f \in BlockIDs(k)}

BoundedSeq(S, n) == UNION {[1..m -> S] : m \in 0..n}

Occurrences(seq, x) == Cardinality({i \in DOMAIN seq : seq[i] = x})

\* the route table read from the sample data: the free rows and the block
RoutesTable(free, k) ==
    LET rows == {free[i] : i \in DOMAIN free} \cup BlockRows(k)
    IN  [r \in rows |-> Occurrences(free, r)
                        + (IF r \in BlockRows(k)
                           THEN r.SourceID - NumFree ELSE 0)]

\* the route table of the documented example, [(A,B,1), (A,B,1), (A,C,1)],
\* with A = 1, B = 2, C = 3
ExampleRoutes == (Row(1, 2, 1) :> 2) @@ (Row(1, 3, 1) :> 1)

\* the route tables the sample data can hold
RoutesTables ==
    {RoutesTable(free, k) : free \in BoundedSeq(FreeRows, MaxRows),
                            k \in BlockSizes}
        \cup {ExampleRoutes}

\* the airport table: one record per airport id
AirportsTable ==
    {[AirportID |-> a, Name |-> a, City |-> (a + 1) \div 2] : a \in AirportIDs}

----------------------------------------------------------------------------
(* pandas operations used by the notebook *)

\* the value of a one-element set; used as Only({e(v) : v \in {arg}}) so
\* that arg is evaluated once
Only(S) == CHOOSE x \in S : TRUE

\* the key of a row under groupby(cols)
KeyOf(r, cols) == [c \in cols |-> r[c]]

\* df.groupby(cols): the groups, one bag of rows per key that occurs
GroupBy(df, cols) ==
    [k \in {KeyOf(r, cols) : r \in DOMAIN df} |->
        [r \in {x \in DOMAIN df : KeyOf(x, cols) = k} |-> df[r]]]

\* variant of CountSeries: groupby(...)[col].nunique(), the number of
\* different col values of the group
NUnique(groups, col) ==
    Only({[k \in DOMAIN g |-> Cardinality({r[col] : r \in DOMAIN g[k]})]
             : g \in {groups}})

RECURSIVE SumCol(_, _)
SumCol(g, col) ==
    IF DOMAIN g = {} THEN 0
    ELSE LET r == CHOOSE x \in DOMAIN g : TRUE
         IN  g[r] * r[col] + SumCol([x \in DOMAIN g \ {r} |-> g[x]], col)

\* variant of CountSeries: groupby(...)[col].sum()
SumSeries(groups, col) ==
    Only({[k \in DOMAIN g |-> SumCol(g[k], col)] : g \in {groups}})

\* groupby(...)[col].count(): per key, the number of rows of the group
\* whose col value is present (every value is present)
CountSeries(groups, col) ==
    Only({[k \in DOMAIN g |-> BagCardinality(g[k])] : g \in {groups}})

\* groupby(...).count(): per key, the count of every column that is not a key
CountFrame(groups, cols) ==
    Only({[k \in DOMAIN g |-> [c \in cols |-> BagCardinality(g[k])]]
             : g \in {groups}})

\* series.reset_index(): the keys become columns again, the values are
\* the column `name`
ResetIndex(series, name) ==
    UNION {{[c \in DOMAIN k \cup {name} |-> IF c = name THEN ser[k] ELSE k[c]]
               : k \in DOMAIN ser} : ser \in {series}}

Columns == {"SourceID", "DestinationID", "Stops"}

\* every order in which the rows of a set can stand
RECURSIVE Orders(_)
Orders(keys) ==
    IF keys = {} THEN {<<>>}
    ELSE UNION {{<<k>> \o t : t \in Orders(keys \ {k})} : k \in keys}

ColumnValues(frame, by, keys) == {frame[k][by] : k \in keys}

\* the rows of `keys` with the greatest value of column `by`, and the others
SplitGreatest(frame, by, keys) ==
    Only({<<{k \in keys : frame[k][by] = m}, {k \in keys : frame[k][by] # m}>>
             : m \in {v \in ColumnValues(frame, by, keys) :
                        \A k \in keys : v >= frame[k][by]}})

\* variant of SortValues: frame.sort_values(by, ascending=False)
RECURSIVE SortValuesDescending(_, _, _)
SortValuesDescending(frame, by, keys) ==
    IF keys = {} THEN {<<>>}
    ELSE UNION {{p \o t : p \in Orders(part[1]),
                          t \in SortValuesDescending(frame, by, part[2])}
                  : part \in {SplitGreatest(frame, by, keys)}}

\* the rows of `keys` with the least value of column `by`, and the others
SplitLeast(frame, by, keys) ==
    Only({<<{k \in keys : frame[k][by] = m}, {k \in keys : frame[k][by] # m}>>
             : m \in {v \in ColumnValues(frame, by, keys) :
                        \A k \in keys : v <= frame[k][by]}})

\* frame.sort_values(by): the rows `keys` of the frame in ascending order of
\* the column `by`: the rows with the least value first, then the rest.
\* The default sort (quicksort) is not stable, so rows with equal values can
\* come out in any order: the operator is the set of the possible results.
RECURSIVE SortValues(_, _, _)
SortValues(frame, by, keys) ==
    IF keys = {} THEN {<<>>}
    ELSE UNION {{p \o t : p \in Orders(part[1]),
                          t \in SortValues(frame, by, part[2])}
                  : part \in {SplitLeast(frame, by, keys)}}

\* variant of ILocLast: .iloc[:n], the first n rows
ILocFirst(order, n) ==
    SubSeq(order, 1, IF Len(order) > n THEN n ELSE Len(order))

\* variant of ILocLast: .iloc[-(n+1):], one row too many
ILocLastOffByOne(order, n) ==
    SubSeq(order, IF Len(order) > n + 1 THEN Len(order) - n ELSE 1, Len(order))

\* .iloc[-n:]: the last n rows, all of them when there are fewer
ILocLast(order, n) ==
    SubSeq(order, IF Len(order) > n THEN Len(order) - n + 1 ELSE 1, Len(order))

\* list(frame.index.values) of a frame grouped by the single column col
IndexValues(order, col) == [i \in DOMAIN order |-> order[i][col]]

----------------------------------------------------------------------------
(* holoviews elements *)

\* hv.Dataset(table, kdim, vdim): the table restricted to its dimensions
Dataset(table, kdim, vdim) == {[c \in {kdim, vdim} |-> r[c]] : r \in table}

\* hv.Chord((edges, nodes), kdims, vdims)
Chord(edges, nodeset) == [data |-> edges, nodes |-> nodeset]

\* chord.select(AirportID=ids, selection_mode=mode): the nodes whose id is
\* selected, and the edges with both endpoints selected in mode 'nodes',
\* with either endpoint selected in mode 'edges'
Select(graph, ids, mode) ==
    [data  |-> {e \in graph.data :
                  IF mode = "nodes"
                  THEN e.SourceID \in ids /\ e.DestinationID \in ids
                  ELSE e.SourceID \in ids \/ e.DestinationID \in ids},
     nodes |-> {n \in graph.nodes : n.AirportID \in ids}]

Range(seq) == {seq[i] : i \in DOMAIN seq}

----------------------------------------------------------------------------
(* The notebook: its statements in cell order *)

\* Before the first cell runs no name is bound; the installed sample data
\* holds the two tables.
Init ==
    /\ \E table \in RoutesTables :
           sampledata = [routes |-> table, airports |-> AirportsTable]
    /\ pc = "import"
    /\ bound = {}
    /\ routes = EmptyBag
    /\ airports = {}
    /\ route_counts = {}
    /\ nodes = {}
    /\ chord = Chord({}, {})
    /\ busiest = <<>>
    /\ busiest_airports = Chord({}, {})
    /\ rendered = Chord({}, {})

\* from bokeh.sampledata.airport_routes import routes, airports
Import ==
    /\ pc = "import"
    /\ routes' = sampledata.routes
    /\ airports' = sampledata.airports
    /\ bound' = bound \cup {"routes", "airports"}
    /\ pc' = "route_counts"
    /\ UNCHANGED <<sampledata, route_counts, nodes, chord, busiest, busiest_airports,
                   rendered>>

\* route_counts = routes.groupby(['SourceID', 'DestinationID'])
\*                      .Stops.count().reset_index()
CountRoutes ==
    /\ pc = "route_counts"
    /\ route_counts' =
          ResetIndex(CountSeries(GroupBy(routes, {"SourceID", "DestinationID"}),
                                 "Stops"),
                     "Stops")
    /\ bound' = bound \cup {"route_counts"}
    /\ pc' = "nodes"
    /\ UNCHANGED <<sampledata, routes, airports, nodes, chord, busiest, busiest_airports,
                   rendered>>

\* nodes = hv.Dataset(airports, 'AirportID', 'City')
DeclareNodes ==
    /\ pc = "nodes"
    /\ nodes' = Dataset(airports, "AirportID", "City")
    /\ bound' = bound \cup {"nodes"}
    /\ pc' = "chord"
    /\ UNCHANGED <<sampledata, routes, airports, route_counts, chord, busiest,
                   busiest_airports, rendered>>

\* variant of DeclareChord: the statement that ranks the airports is skipped
DeclareChordSkipRank ==
    /\ pc = "chord"
    /\ chord' = Chord(route_counts, nodes)
    /\ bound' = bound \cup {"chord"}
    /\ pc' = "busiest_airports"
    /\ UNCHANGED <<sampledata, routes, airports, route_counts, nodes, busiest,
                   busiest_airports, rendered>>

\* chord = hv.Chord((route_counts, nodes), ['SourceID', 'DestinationID'],
\*                  ['Stops'])
DeclareChord ==
    /\ pc = "chord"
    /\ chord' = Chord(route_counts, nodes)
    /\ bound' = bound \cup {"chord"}
    /\ pc' = "busiest"
    /\ UNCHANGED <<sampledata, routes, airports, route_counts, nodes, busiest,
                   busiest_airports, rendered>>

\* the frame routes.groupby('SourceID').count()
SourceCounts(df) ==
    CountFrame(GroupBy(df, {"SourceID"}), Columns \ {"SourceID"})

\* busiest = list(routes.groupby('SourceID').count().sort_values('Stops')
\*                      .iloc[-20:].index.values)
SelectBusiest ==
    /\ pc = "busiest"
    /\ \E frame \in {SourceCounts(routes)} :
          \E order \in SortValues(frame, "Stops", DOMAIN frame) :
             busiest' = IndexValues(ILocLast(order, TopN), "SourceID")
    /\ bound' = bound \cup {"busiest"}
    /\ pc' = "busiest_airports"
    /\ UNCHANGED <<sampledata, routes, airports, route_counts, nodes, chord,
                   busiest_airports, rendered>>

\* variant of SelectNodes: selection_mode is left at its default, 'edges'
SelectNodesDefaultMode ==
    /\ pc = "busiest_airports"
    /\ busiest_airports' = Select(chord, Range(busiest), "edges")
    /\ bound' = bound \cup {"busiest_airports"}
    /\ pc' = "plot"
    /\ UNCHANGED <<sampledata, routes, airports, route_counts, nodes, chord, busiest,
                   rendered>>

\* variant of SelectNodes: the first entry of the list is not passed on
SelectNodesDropFirst ==
    /\ pc = "busiest_airports"
    /\ busiest_airports' =
          Select(chord, {busiest[i] : i \in DOMAIN busiest \ {1}}, "nodes")
    /\ bound' = bound \cup {"busiest_airports"}
    /\ pc' = "plot"
    /\ UNCHANGED <<sampledata, routes, airports, route_counts, nodes, chord, busiest,
                   rendered>>

\* variant of SelectNodes: an empty selection is rejected
SelectNodesValidated ==
    /\ pc = "busiest_airports"
    /\ busiest # <<>>
    /\ busiest_airports' = Select(chord, Range(busiest), "nodes")
    /\ bound' = bound \cup {"busiest_airports"}
    /\ pc' = "plot"
    /\ UNCHANGED <<sampledata, routes, airports, route_counts, nodes, chord, busiest,
                   rendered>>

\* busiest_airports = chord.select(AirportID=busiest, selection_mode='nodes')
SelectNodes ==
    /\ pc = "busiest_airports"
    /\ busiest_airports' = Select(chord, Range(busiest), "nodes")
    /\ bound' = bound \cup {"busiest_airports"}
    /\ pc' = "plot"
    /\ UNCHANGED <<sampledata, routes, airports, route_counts, nodes, chord, busiest,
                   rendered>>

\* the cell "Plot": the element is handed to the renderer
Plot ==
    /\ pc = "plot"
    /\ rendered' = busiest_airports
    /\ pc' = "done"
    /\ UNCHANGED <<sampledata, bound, routes, airports, route_counts, nodes, chord,
                   busiest, busiest_airports>>

Next ==
    \/ Import
    \/ CountRoutes
    \/ DeclareNodes
    \/ DeclareChord
    \/ SelectBusiest
    \/ SelectNodes
    \/ Plot

Spec == Init /\ [][Next]_vars

\* a cell runs its statements one after the other without suspension
FairSpec == Spec /\ WF_vars(Next)

TypeOK ==
    /\ pc \in {"import", "route_counts", "nodes", "chord", "busiest",
               "busiest_airports", "plot", "done"}
    /\ IsABag(routes)
    /\ \A i \in DOMAIN busiest : busiest[i] \in AirportIDs

----------------------------------------------------------------------------
(* Properties *)

RECURSIVE CopiesOfAll(_, _)
CopiesOfAll(rows, bag) ==
    IF rows = {} THEN 0
    ELSE LET r == CHOOSE x \in rows : TRUE
         IN  CopiesIn(r, bag) + CopiesOfAll(rows \ {r}, bag)

\* the number of route rows from airport s to airport d
RouteRows(s, d) ==
    CopiesOfAll({r \in DOMAIN routes :
                    r.SourceID = s /\ r.DestinationID = d}, routes)

\* the number of route rows that leave airport s
OutgoingRoutes(s) ==
    CopiesOfAll({r \in DOMAIN routes : r.SourceID = s}, routes)

RECURSIVE SumStops(_)
SumStops(entries) ==
    IF entries = {} THEN 0
    ELSE LET e == CHOOSE x \in entries : TRUE
         IN  e.Stops + SumStops(entries \ {e})

Sources == {r.SourceID : r \in DOMAIN routes}

Destinations == {r.DestinationID : r \in DOMAIN routes}

SamePair(e, r) ==
    e.SourceID = r.SourceID /\ e.DestinationID = r.DestinationID

Min(a, b) == IF a < b THEN a ELSE b

\* C1: the count that route_counts holds for a pair (src, dst) is the number
\* of route rows with that source and destination, and every route row is
\* counted by exactly one entry.
C1_CountPerPair ==
    "route_counts" \in bound =>
        /\ \A e \in route_counts :
              e.Stops = RouteRows(e.SourceID, e.DestinationID)
        /\ \A r \in DOMAIN routes :
              Cardinality({e \in route_counts : SamePair(e, r)}) = 1

C1_Witness ==
    /\ "route_counts" \in bound
    /\ Cardinality(route_counts) >= 2
    /\ \E r1, r2 \in DOMAIN routes :
          /\ SamePair(r1, r2) /\ r1.Stops # r2.Stops
          /\ \E e \in route_counts : SamePair(e, r1) /\ e.Stops = 2

\* C2: busiest has min(20, number of distinct sources) entries, all different.
C2_Length ==
    "busiest" \in bound =>
        /\ Len(busiest) = Min(20, Cardinality(Sources))
        /\ \A i, j \in DOMAIN busiest : busiest[i] = busiest[j] => i = j

C2_Witness ==
    /\ "busiest" \in bound
    /\ Cardinality(Sources) > 20
    /\ Len(busiest) = 20

\* C3 as stated: busiest is in descending order of outgoing-route count.
C3_Descending ==
    "busiest" \in bound =>
        \A i, j \in DOMAIN busiest :
            i < j => OutgoingRoutes(busiest[i]) >= OutgoingRoutes(busiest[j])

\* C3 amended: busiest is in ascending order of outgoing-route count: the
\* airport with the most routes comes last.
C3_Ascending ==
    "busiest" \in bound =>
        \A i, j \in DOMAIN busiest :
            i < j => OutgoingRoutes(busiest[i]) <= OutgoingRoutes(busiest[j])

C3_Witness ==
    /\ "busiest" \in bound
    /\ Len(busiest) >= 2
    /\ OutgoingRoutes(busiest[1]) < OutgoingRoutes(busiest[Len(busiest)])

\* C4: every airport of busiest has at least as many outgoing routes as
\* every source airport left out of it.
C4_TopSources ==
    "busiest" \in bound =>
        \A a \in Range(busiest) : \A s \in Sources \ Range(busiest) :
            OutgoingRoutes(a) >= OutgoingRoutes(s)

C4_Witness ==
    /\ "busiest" \in bound
    /\ \E s \in Sources \ Range(busiest) : \E a \in Range(busiest) :
          OutgoingRoutes(s) = OutgoingRoutes(a)
    /\ \E s \in Sources \ Range(busiest) : \E a \in Range(busiest) :
          OutgoingRoutes(s) < OutgoingRoutes(a)

\* C5: the selection in mode 'nodes' holds only nodes and edges of the
\* chord, every node is in busiest and every edge has both ends in busiest.
C5_SelectionSubset ==
    "busiest_airports" \in bound =>
        /\ busiest_airports.nodes \subseteq chord.nodes
        /\ busiest_airports.data \subseteq chord.data
        /\ \A n \in busiest_airports.nodes : n.AirportID \in Range(busiest)
        /\ \A e \in busiest_airports.data :
              e.SourceID \in Range(busiest) /\ e.DestinationID \in Range(busiest)

C5_Witness ==
    /\ "busiest_airports" \in bound
    /\ busiest_airports.data # {}
    /\ \E e \in chord.data \ busiest_airports.data :
          e.SourceID \in Range(busiest)
    /\ busiest_airports.nodes # chord.nodes

\* C6: for the routes [(A,B,1),(A,B,1),(A,C,1)] the route counts are
\* exactly {(A,B): 2, (A,C): 1} and the count that ranks A is 3.
C6_Example ==
    (routes = ExampleRoutes /\ "route_counts" \in bound) =>
        /\ route_counts = {Row(1, 2, 2), Row(1, 3, 1)}
        /\ \A frame \in {SourceCounts(routes)} :
              /\ DOMAIN frame = {[SourceID |-> 1]}
              /\ frame[[SourceID |-> 1]].Stops = 3

C6_Witness ==
    /\ routes = ExampleRoutes
    /\ "route_counts" \in bound
    /\ pc = "done"

\* C7: with an empty route table every statement still runs (none rejects
\* its input), the run completes, and the route counts, the busiest list
\* and the selection are empty.
C7_EmptyTable ==
    /\ [](("routes" \in bound /\ routes = EmptyBag) =>
            /\ pc # "done" => ENABLED Next
            /\ "route_counts" \in bound => route_counts = {}
            /\ "busiest" \in bound => busiest = <<>>
            /\ "busiest_airports" \in bound =>
                  busiest_airports.data = {} /\ busiest_airports.nodes = {})
    /\ ("routes" \in bound /\ routes = EmptyBag) ~> (pc = "done")

C7_Witness ==
    /\ routes = EmptyBag
    /\ pc = "done"
    /\ nodes # {}
    /\ rendered.nodes = {}

Order == <<"import", "route_counts", "nodes", "chord", "busiest",
           "busiest_airports", "plot", "done">>

Pos(p) == CHOOSE i \in DOMAIN Order : Order[i] = p

\* C8: the statements run once each in notebook order, the selection reads
\* only names that are bound, and every run reaches the end.
C8_Linear ==
    /\ [][Pos(pc') = Pos(pc) + 1]_vars
    /\ [](pc = "busiest_airports" =>
             {"route_counts", "chord", "busiest"} \subseteq bound)
    /\ <>(pc = "done")

C8_Witness ==
    /\ pc = "done"
    /\ bound = {"routes", "airports", "route_counts", "nodes", "chord",
                "busiest", "busiest_airports"}
    /\ rendered.data # {}

\* C9: route_counts has one entry per pair that occurs, each at least 1;
\* the count that ranks a source is the sum of its entries; the entries sum
\* to the number of route rows.
C9_Consistent ==
    "route_counts" \in bound =>
        /\ \A e \in route_counts :
              e.Stops >= 1 /\ \E r \in DOMAIN routes : SamePair(e, r)
        /\ \A r \in DOMAIN routes :
              Cardinality({e \in route_counts : SamePair(e, r)}) = 1
        /\ \A frame \in {SourceCounts(routes)} : \A k \in DOMAIN frame :
              frame[k].Stops =
                 SumStops({e \in route_counts : e.SourceID = k.SourceID})
        /\ SumStops(route_counts) = BagCardinality(routes)

C9_Witness ==
    /\ "route_counts" \in bound
    /\ \E e1, e2 \in route_counts :
          e1.SourceID = e2.SourceID /\ e1.DestinationID # e2.DestinationID
    /\ \E e \in route_counts : e.Stops >= 2
    /\ Cardinality(Sources) > TopN

\* C10: the selection keeps every route count between two busiest airports
\* as it is, leaves the tables and the list unchanged, and an airport that
\* is only ever a destination is not in busiest and keeps no edge.
C10_SelectionFrame ==
    /\ [](("busiest_airports" \in bound) =>
            \A e \in route_counts :
               (e.SourceID \in Range(busiest)
                   /\ e.DestinationID \in Range(busiest))
               => e \in busiest_airports.data)
    /\ [][pc = "busiest_airports" =>
             UNCHANGED <<sampledata, routes, airports, route_counts, nodes, chord,
                         busiest>>]_vars
    /\ [](\A a \in Destinations \ Sources :
            /\ "busiest" \in bound => a \notin Range(busiest)
            /\ "busiest_airports" \in bound =>
                  \A e \in busiest_airports.data : e.DestinationID # a)

C10_Witness ==
    /\ "busiest_airports" \in bound
    /\ busiest_airports.data # {}
    /\ \E a \in Destinations \ Sources : RouteRows(1, a) >= 2
    /\ \E e \in busiest_airports.data : e.Stops >= 2

====
